---- MODULE Spec2Model ----
(***************************************************************************)
(* Model of the D-Algorithm test-pattern generator: the multi-valued logic *)
(* algebra (multi_logic.py), the gate/line network (logic_blocks.py) and   *)
(* the recursive search with its implication procedure (d_alg.py).         *)
(***************************************************************************)
EXTENDS Integers, Sequences, FiniteSets, TLC

(***************************************************************************)
(* Bounds of the model.                                                    *)
(***************************************************************************)
\* caller-created lines available as gate inputs
NumPI == 3
\* gates constructed inside one Network context
MaxGates == 3
\* consecutive D_Algorithm calls on the finished network
MaxRuns == 2
\* integers -MaxCode..MaxCode are handed to the TriValue constructor
MaxCode == 8

(***************************************************************************)
(* multi_logic.py: TriValue, a 2-bit code per logical bit (width 1).       *)
(***************************************************************************)
T_ON == 3
T_OFF == 0
T_UNKNOWN == 1

TriCodes == {T_OFF, T_UNKNOWN, T_ON}

\* val & mask, (val >> 1) & mask with the width-1 interleave mask 0b01
DecomposeBits(v) == <<v % 2, (v \div 2) % 2>>

\* (bottom << 1) | top
SwapBits(v) == 2 * DecomposeBits(v)[1] + DecomposeBits(v)[2]

\* ~x & full_mask on two bits
TriMaskedNot(v) == (1 - (v % 2)) + 2 * (1 - ((v \div 2) % 2))

TriInvert(v) == TriMaskedNot(SwapBits(v))

TriAnd(a, b) == ((a % 2) * (b % 2)) + 2 * (((a \div 2) % 2) * ((b \div 2) % 2))

BitOr(x, y) == IF x + y > 0 THEN 1 ELSE 0

TriOr(a, b) == BitOr(a % 2, b % 2) + 2 * BitOr((a \div 2) % 2, (b \div 2) % 2)

TriXor(a, b) == TriOr(TriAnd(TriInvert(a), b), TriAnd(a, TriInvert(b)))

\* TriValue((self.value >> (2 * index)) & 0b11)
TriGetItem(v, index) == (v \div (4 ^ index)) % 4

TriEq(a, b) == a = b

\* int.bit_length(): the bits of the magnitude, the sign ignored
RECURSIVE BitLength(_)
BitLength(n) ==
    IF n = 0 THEN 0
    ELSE 1 + BitLength((IF n < 0 THEN -n ELSE n) \div 2)

\* _check_valid_tri_value_vector for vector_size 1: "ValueError" where it
\* raises, "ok" where it returns (it then returns True); val & mask and
\* (val >> 1) & mask are taken on the two's-complement integer
CheckValidTriValueVector(val) ==
    IF BitLength(val) > 2 THEN "ValueError"
    ELSE LET bottom == DecomposeBits(val)[1]
             top == DecomposeBits(val)[2]
             check_mask == (1 - bottom) * top
         IN  IF check_mask # 0 THEN "ValueError" ELSE "ok"

\* TriValue.__new__ on an int: obj.value = value, then the check
TriNew(val) ==
    IF CheckValidTriValueVector(val) = "ok"
    THEN [error |-> "none", value |-> val]
    ELSE [error |-> "ValueError"]

(***************************************************************************)
(* multi_logic.py: FiveValue, a pair <<good, faulty>> of TriValues.        *)
(***************************************************************************)
MergeUnknownsKeep(p) == p

MergeUnknowns(p) ==
    IF TriEq(p[1], T_UNKNOWN) \/ TriEq(p[2], T_UNKNOWN)
    THEN <<T_UNKNOWN, T_UNKNOWN>>
    ELSE p

FiveValue(p) == MergeUnknowns(p)

ON == FiveValue(<<T_ON, T_ON>>)
OFF == FiveValue(<<T_OFF, T_OFF>>)
UNKNOWN == FiveValue(<<T_UNKNOWN, T_UNKNOWN>>)
ON_IS_OFF == FiveValue(<<T_ON, T_OFF>>)
OFF_IS_ON == FiveValue(<<T_OFF, T_ON>>)

FiveValues == {ON, OFF, UNKNOWN, ON_IS_OFF, OFF_IS_ON}

FiveInvert(u) == FiveValue(<<TriInvert(u[1]), TriInvert(u[2])>>)

FiveAnd(u, v) == FiveValue(<<TriAnd(u[1], v[1]), TriAnd(u[2], v[2])>>)

FiveOr(u, v) == FiveValue(<<TriOr(u[1], v[1]), TriOr(u[2], v[2])>>)

FiveXor(u, v) == FiveValue(<<TriXor(u[1], v[1]), TriXor(u[2], v[2])>>)

FiveEqGoodOnly(u, v) == TriEq(TriGetItem(u[1], 0), TriGetItem(v[1], 0))

\* self.value[0][0] == other.value[0][0] and self.value[1][0] == other.value[1][0]
FiveEq(u, v) ==
    /\ TriEq(TriGetItem(u[1], 0), TriGetItem(v[1], 0))
    /\ TriEq(TriGetItem(u[2], 0), TriGetItem(v[2], 0))

(***************************************************************************)
(* logic_blocks.py: gates, lines and the network.                          *)
(***************************************************************************)
\* Optional[Gate] = None
NoGate == 0

Gates == 1..MaxGates

\* caller-created lines, one output line per gate, and the synthetic line
\* D_Algorithm splices in front of the fault location
SynLine == NumPI + MaxGates + 1

\* the gate a constructor call outside every Network context creates, and
\* the fresh Line() it makes its output
OrphanGate == MaxGates + 1
OrphanLine == SynLine + 1

Lines == 1..OrphanLine

Kinds == {"AND", "NAND", "OR", "NOR", "XOR", "XNOR", "NOT"}

\* the controlling argument each variant passes to Gate.__init__
Controlling(k) ==
    CASE k = "AND" -> OFF
      [] k = "NAND" -> OFF
      [] k = "OR" -> ON
      [] k = "NOR" -> ON
      [] k = "XOR" -> ON
      [] k = "XNOR" -> OFF
      [] k = "NOT" -> OFF

\* the inversion argument each variant passes to Gate.__init__
Inversion(k) ==
    CASE k = "AND" -> OFF
      [] k = "NAND" -> ON
      [] k = "OR" -> OFF
      [] k = "NOR" -> ON
      [] k = "XOR" -> ON
      [] k = "XNOR" -> ON
      [] k = "NOT" -> ON

\* reduce(lambda a, b: a op b, values): a left fold without initial value
ReduceFirst(vs) == vs[1]

RECURSIVE ReduceAnd(_)
ReduceAnd(vs) ==
    IF Len(vs) = 1 THEN vs[1]
    ELSE FiveAnd(ReduceAnd(SubSeq(vs, 1, Len(vs) - 1)), vs[Len(vs)])

RECURSIVE ReduceOr(_)
ReduceOr(vs) ==
    IF Len(vs) = 1 THEN vs[1]
    ELSE FiveOr(ReduceOr(SubSeq(vs, 1, Len(vs) - 1)), vs[Len(vs)])

RECURSIVE ReduceXor(_)
ReduceXor(vs) ==
    IF Len(vs) = 1 THEN vs[1]
    ELSE FiveXor(ReduceXor(SubSeq(vs, 1, Len(vs) - 1)), vs[Len(vs)])

\* <variant>.forward() on the input values vs
ForwardOf(k, vs) ==
    CASE k = "AND" -> ReduceAnd(vs)
      [] k = "NAND" -> FiveInvert(ReduceAnd(vs))
      [] k = "OR" -> ReduceOr(vs)
      [] k = "NOR" -> FiveInvert(ReduceOr(vs))
      [] k = "XOR" -> ReduceXor(vs)
      [] k = "XNOR" -> FiveInvert(ReduceXor(vs))
      [] k = "NOT" -> FiveInvert(vs[1])

(***************************************************************************)
(* The networks a caller builds.  A wiring lists a gate's inputs: n > 0 is *)
(* the caller-created line n, -g is the output line of gate g.  The        *)
(* catalogue holds the example circuits of the driver and of the test      *)
(* scenarios, every gate of them taken over every gate variant.            *)
(***************************************************************************)
Topologies ==
    { << <<1, 2>>, <<-1, 1>>, <<-1, 3, 1>>, <<-3>> >>,
      << <<1, 2>>, <<-1, 3>> >>,
      << <<1, 1>> >>,
      << <<1>>, <<-1, 1>> >> }

LineOf(r) == IF r > 0 THEN r ELSE NumPI - r

OutLine(g) == NumPI + g

WiringLines(w) == [i \in 1..Len(w) |-> LineOf(w[i])]

KindsFor(w) == IF Len(w) = 1 THEN {"NOT"} ELSE Kinds \ {"NOT"}

VARIABLES
    ctx,        \* Network._active_network_contexts, as its length
    entered,    \* whether the caller's with-block has been entered
    kind,       \* gate -> variant ("none" before construction)
    ins,        \* gate -> Gate.inputs
    gout,       \* gate -> Gate.output
    netGates,   \* Network.gates
    netLines,   \* Network.lines
    parent,     \* line -> Line.parent
    children,   \* line -> Line.children
    value,      \* line -> Line.value
    phase,      \* "build", "idle" (between calls), "running" (inside D_Algorithm),
                \* "failed" (the caller's script ended with a RuntimeError)
    stack,      \* the activations of D_Algorithm_Recurse, innermost last
    fault,      \* arguments and locals of the running D_Algorithm call
    result,     \* what the last D_Algorithm call returned
    raised,     \* the exception the last D_Algorithm call ended with
    picked,     \* iteration order of gate sets, as far as pops have revealed it
    runs,       \* D_Algorithm calls started so far
    pre,        \* history: the network structure when the running call began
    prev,       \* history: outcome of the first call
    lastOp,     \* history: the step taken last
    operands,   \* three FiveValues handed to an operator of the algebra
    outcome     \* what the operator applied last returned

netVars == <<ctx, entered, kind, ins, gout, netGates, netLines, parent, children>>
engVars == <<stack, fault, result, raised, picked, runs>>
histVars == <<pre, prev, lastOp>>
algVars == <<operands, outcome>>
vars == <<netVars, value, phase, engVars, histVars, algVars>>

NoFault == [loc |-> 0, sa1 |-> FALSE, source |-> NoGate]
NoPrev == [loc |-> 0, sa1 |-> FALSE, result |-> "none", vals |-> <<>>]
NoOutcome == [op |-> "none"]
NoPre == [parent |-> <<>>, children |-> <<>>, ins |-> <<>>, gout |-> <<>>, netLines |-> {}]

EngineInit ==
    /\ ctx = 0
    /\ entered = FALSE
    /\ kind = [g \in Gates \cup {OrphanGate} |-> "none"]
    /\ ins = [g \in Gates \cup {OrphanGate} |-> <<>>]
    /\ gout = [g \in Gates \cup {OrphanGate} |-> 0]
    /\ netGates = {}
    /\ netLines = {}
    /\ parent = [l \in Lines |-> NoGate]
    /\ children = [l \in Lines |-> <<>>]
    /\ value = [l \in Lines |-> UNKNOWN]
    /\ phase = "build"
    /\ stack = <<>>
    /\ fault = NoFault
    /\ result = "none"
    /\ raised = "none"
    /\ picked = {}
    /\ runs = 0
    /\ pre = NoPre
    /\ prev = NoPrev
    /\ lastOp = "init"

Init ==
    /\ EngineInit
    /\ operands = <<UNKNOWN, UNKNOWN, UNKNOWN>>
    /\ outcome = NoOutcome

\* Line.is_output / Line.is_input
IsOutput(l) == Len(children[l]) = 0
IsInput(l) == parent[l] = NoGate

\* Network.outputs / Network.inputs
NetOutputs == {l \in netLines : Len(children[l]) = 0}
NetInputs == {l \in netLines : parent[l] = NoGate}

\* Network.__enter__
Enter ==
    /\ phase = "build"
    /\ ~entered
    /\ ctx = 0
    /\ ctx' = ctx + 1
    /\ entered' = TRUE
    /\ lastOp' = "enter"
    /\ UNCHANGED <<kind, ins, gout, netGates, netLines, parent, children,
                   value, phase, engVars, pre, prev>>
    /\ UNCHANGED algVars

\* line.children.append(self) for each line of inputs, in order
RECURSIVE AppendChild(_, _, _)
AppendChild(ch, ls, g) ==
    IF Len(ls) = 0 THEN ch
    ELSE AppendChild([ch EXCEPT ![ls[1]] = Append(@, g)], Tail(ls), g)

\* Network._add_gate
AddGateLines(ls, g, out) == netLines \cup {ls[i] : i \in 1..Len(ls)} \cup {out}

\* Gate.__init__ inside the with-block: the n-th gate constructed drives the
\* fresh line OutLine(n)
NewGate(k, w) ==
    LET g == Cardinality(netGates) + 1
        ls == WiringLines(w)
    IN  /\ phase = "build"
        /\ ctx > 0
        /\ g <= MaxGates
        /\ \E t \in Topologies :
              /\ Len(t) >= g
              /\ t[g] = w
              /\ \A h \in 1..(g - 1) : WiringLines(t[h]) = ins[h]
        /\ k \in KindsFor(w)
        /\ children' = AppendChild(children, ls, g)
        /\ parent' = [parent EXCEPT ![OutLine(g)] = g]
        /\ kind' = [kind EXCEPT ![g] = k]
        /\ ins' = [ins EXCEPT ![g] = ls]
        /\ gout' = [gout EXCEPT ![g] = OutLine(g)]
        /\ netGates' = netGates \cup {g}
        /\ netLines' = AddGateLines(ls, g, OutLine(g))
        /\ lastOp' = "gate"
        /\ UNCHANGED <<ctx, entered, value, phase, engVars, pre, prev>>
        /\ UNCHANGED algVars

\* Network.active_network on the context stack of length c
ActiveNetworkStale(c) == "net"

ActiveNetwork(c) == IF c = 0 THEN "RuntimeError" ELSE "net"

\* Gate.__init__ while no context is active, before the with-block or after
\* it: the gate hangs itself on its lines, then register_gate raises
\* RuntimeError and the caller's script ends
NewGateOutside(k, w) ==
    LET ls == WiringLines(w)
    IN  /\ phase \in {"build", "idle"}
        /\ ctx = 0
        /\ \E t \in Topologies : t[1] = w
        /\ k \in KindsFor(w)
        /\ children' = AppendChild(children, ls, OrphanGate)
        /\ parent' = [parent EXCEPT ![OrphanLine] = OrphanGate]
        /\ kind' = [kind EXCEPT ![OrphanGate] = k]
        /\ ins' = [ins EXCEPT ![OrphanGate] = ls]
        /\ gout' = [gout EXCEPT ![OrphanGate] = OrphanLine]
        /\ IF ActiveNetwork(ctx) = "RuntimeError"
           THEN /\ phase' = "failed"
                /\ lastOp' = "gate_error"
                /\ UNCHANGED <<netGates, netLines>>
           ELSE /\ netGates' = netGates \cup {OrphanGate}
                /\ netLines' = AddGateLines(ls, OrphanGate, OrphanLine)
                /\ lastOp' = "gate"
                /\ UNCHANGED phase
        /\ UNCHANGED <<ctx, entered, value, engVars, pre, prev>>
        /\ UNCHANGED algVars

\* Network.__exit__: the caller leaves the with-block with the network built
Exit ==
    /\ phase = "build"
    /\ ctx > 0
    /\ netGates # {}
    /\ ctx' = ctx - 1
    /\ phase' = "idle"
    /\ lastOp' = "exit"
    /\ UNCHANGED <<entered, kind, ins, gout, netGates, netLines, parent, children,
                   value, engVars, pre, prev>>
    /\ UNCHANGED algVars

\* Network.reset
ResetKeep(val) == val

ResetValues(val) == [l \in Lines |-> IF l \in netLines THEN UNKNOWN ELSE val[l]]

Reset ==
    /\ phase = "idle"
    /\ value' = ResetValues(value)
    /\ lastOp' = "reset"
    /\ UNCHANGED <<netVars, phase, engVars, pre, prev>>
    /\ UNCHANGED algVars

\* Gate.forward / get_unknown_input / has_sensitized_input / can_imply_output
\* on the line values val
Forward(g, val) == ForwardOf(kind[g], [i \in 1..Len(ins[g]) |-> val[ins[g][i]]])

HasSensitizedInput(g, val) ==
    \E i \in 1..Len(ins[g]) :
        FiveEq(val[ins[g][i]], ON_IS_OFF) \/ FiveEq(val[ins[g][i]], OFF_IS_ON)

CanImplyOutput(g, val) == FiveEq(val[gout[g]], Forward(g, val))

(***************************************************************************)
(* d_alg.py: the implication procedure.                                    *)
(***************************************************************************)
BACKWARDS == "BACKWARDS"
FORWARDS == "FORWARDS"
BOTH == "BOTH"

\* AssignmentQueueItem(line, value, direction)
Item(l, v, dir) == [line |-> l, value |-> v, direction |-> dir]

\* deduce_gate, on the frontiers and queue st = [q, d, j], with the line
\* values val and the gate outputs as rewired
DeduceGate(g, st, val) ==
    LET deduction == Forward(g, val)
        q1 == IF ~FiveEq(deduction, UNKNOWN)
              THEN Append(st.q, Item(gout[g], deduction, FORWARDS))
              ELSE st.q
        d1 == IF HasSensitizedInput(g, val) /\ FiveEq(val[gout[g]], UNKNOWN)
              THEN st.d \cup {g}
              ELSE st.d \ {g}
        j1 == IF ~CanImplyOutput(g, val) /\ ~FiveEq(val[gout[g]], UNKNOWN)
              THEN st.j \cup {g}
              ELSE st.j \ {g}
    IN  [q |-> q1, d |-> d1, j |-> j1]

RECURSIVE DeduceAll(_, _, _)
DeduceAll(gs, st, val) ==
    IF Len(gs) = 0 THEN st
    ELSE DeduceAll(Tail(gs), DeduceGate(gs[1], st, val), val)

\* the gates imply re-deduces after assigning a line: its parent for
\* BACKWARDS and BOTH (deduce_gate(None) does nothing), then its children
\* for FORWARDS and BOTH
GatesToDeduce(l, dir) ==
    (IF dir \in {BACKWARDS, BOTH} /\ parent[l] # NoGate THEN <<parent[l]>> ELSE <<>>)
    \o (IF dir \in {FORWARDS, BOTH} THEN children[l] ELSE <<>>)

RevertNone(val, undo) == val

RevertAll(val, undo) == [l \in DOMAIN val |-> UNKNOWN]

\* AssignmentContext.revert: restore every logged line, in log order
RECURSIVE Revert(_, _)
Revert(val, undo) ==
    IF Len(undo) = 0 THEN val
    ELSE Revert([val EXCEPT ![undo[1][1]] = undo[1][2]], Tail(undo))

\* what imply does on a contradiction: it returns False (the raise of
\* ImplicationError is commented out)
ContradictionRaises == "raise"

ContradictionOutcome == "return"

\* error_at_primary_out
ErrorAtPrimaryOut(vis, val) ==
    \E l \in vis : FiveEq(val[l], ON_IS_OFF) \/ FiveEq(val[l], OFF_IS_ON)

(***************************************************************************)
(* d_alg.py: D_Algorithm_Recurse as a stack of activations.  pc values:    *)
(*   imply   inside the imply call at the top of the function              *)
(*   dloop   at the head of "while d_front"                                *)
(*   dcall   waiting for the recursive call of the propagation step        *)
(*   jloop   at the head of "while j_front"                                *)
(*   jfor    inside "for line in gate.inputs" of the justification step    *)
(*   jcall   waiting for the recursive call made for one input             *)
(*   jlast   waiting for the recursive call made after the for loop        *)
(*   rtrue / rfalse   at a return statement                                *)
(* pops and calls are history: the queue items the activation's imply call *)
(* has popped, and the recursive calls the activation has made.  entry and *)
(* kept are history too: the line values when the activation's imply call  *)
(* was entered, and the assignments that call had made when it returned    *)
(* True.                                                                   *)
(***************************************************************************)
Frame(d, j, q, vis) ==
    [pc |-> "imply", d |-> d, j |-> j, q |-> q, vis |-> vis,
     gate |-> NoGate, i |-> 0, undo |-> <<>>, pops |-> 0, calls |-> 0,
     entry |-> value, kept |-> {}]

Top == stack[Len(stack)]

SetTop(f) == [stack EXCEPT ![Len(stack)] = f]

Running == phase = "running" /\ Len(stack) > 0

\* the caller's activation after the call it waits for returned val
ReturnIntoOneGate(caller, val) ==
    [caller EXCEPT !.pc = IF val THEN "rtrue" ELSE "rfalse"]

ReturnInto(caller, val) ==
    CASE caller.pc = "dcall" ->
            [caller EXCEPT !.pc = IF val THEN "rtrue" ELSE "dloop"]
      [] caller.pc = "jcall" ->
            IF val THEN [caller EXCEPT !.pc = "rtrue"]
            ELSE [caller EXCEPT
                    !.q = [@ EXCEPT ![Len(@)] =
                             Item(ins[caller.gate][caller.i],
                                  FiveInvert(Controlling(kind[caller.gate])), BOTH)],
                    !.i = @ + 1,
                    !.pc = "jfor"]
      [] caller.pc = "jlast" ->
            [caller EXCEPT !.pc = IF val THEN "rtrue" ELSE "rfalse"]

\* the top activation returns val to its caller, or to D_Algorithm
DoReturn(val) ==
    IF Len(stack) = 1
    THEN /\ stack' = <<>>
         /\ result' = val
    ELSE /\ stack' = Append(SubSeq(stack, 1, Len(stack) - 2),
                            ReturnInto(stack[Len(stack) - 1], val))
         /\ UNCHANGED result

\* set.pop(): the element a set of gates yields first is fixed by the hashes
\* of the gate objects; a choice is remembered once a pop has revealed it
PickOk(S, g) == g \in S /\ \A p \in picked : p[1] = S => p[2] = g

Remember(S, g) == IF Cardinality(S) > 1 THEN picked \cup {<<S, g>>} ELSE picked

\* assignment_queue.pop(): the queue without its last item
PopKeepsItem(q) == q

PopQueue(q) == SubSeq(q, 1, Len(q) - 1)

\* "if line.value == FiveValue.UNKNOWN": imply assigns the popped value
AssignsAlways(v) == TRUE

Assigns(v) == FiveEq(v, UNKNOWN)

\* one iteration of "while assignment_queue" in imply
ImplyPop ==
    /\ Running
    /\ Top.pc = "imply"
    /\ Len(Top.q) > 0
    /\ LET f == Top
           it == f.q[Len(f.q)]
           q0 == PopQueue(f.q)
           vis1 == IF IsOutput(it.line) THEN f.vis \cup {it.line} ELSE f.vis
       IN  IF Assigns(value[it.line])
           THEN LET val1 == [value EXCEPT ![it.line] = it.value]
                    st == DeduceAll(GatesToDeduce(it.line, it.direction),
                                    [q |-> q0, d |-> f.d, j |-> f.j], val1)
                IN  /\ value' = val1
                    /\ stack' = SetTop([f EXCEPT !.q = st.q, !.d = st.d, !.j = st.j,
                                                 !.vis = vis1, !.pops = @ + 1,
                                                 !.undo = Append(@, <<it.line, value[it.line]>>)])
                    /\ lastOp' = "assign"
                    /\ UNCHANGED <<result, raised>>
           ELSE IF FiveEq(value[it.line], it.value)
           THEN /\ stack' = SetTop([f EXCEPT !.q = q0, !.vis = vis1, !.pops = @ + 1])
                /\ lastOp' = "skip"
                /\ UNCHANGED <<value, result, raised>>
           ELSE /\ value' = Revert(value, f.undo)
                /\ lastOp' = "contradiction"
                /\ IF ContradictionOutcome = "return"
                   THEN DoReturn(FALSE) /\ UNCHANGED raised
                   ELSE stack' = <<>> /\ raised' = "ImplicationError" /\ UNCHANGED result
    /\ UNCHANGED <<netVars, phase, fault, picked, runs, pre, prev>>
    /\ UNCHANGED algVars

\* imply finds the queue empty and returns True; D_Algorithm_Recurse then
\* tests error_at_primary_out
ImplyDone ==
    /\ Running
    /\ Top.pc = "imply"
    /\ Len(Top.q) = 0
    /\ stack' = SetTop([Top EXCEPT !.undo = <<>>, !.entry = <<>>,
                          !.kept = {<<Top.undo[n][1], value[Top.undo[n][1]]>> :
                                        n \in 1..Len(Top.undo)},
                          !.pc = IF ErrorAtPrimaryOut(Top.vis, value)
                                 THEN "jloop" ELSE "dloop"])
    /\ lastOp' = "implied"
    /\ UNCHANGED <<netVars, value, phase, fault, result, raised, picked, runs, pre, prev>>
    /\ UNCHANGED algVars

\* the assignments the propagation step queues for gate g
RECURSIVE NonControllingItems(_, _, _)
NonControllingItems(g, i, q) ==
    IF i > Len(ins[g]) THEN q
    ELSE NonControllingItems(g, i + 1,
            IF FiveEq(value[ins[g][i]], UNKNOWN)
            THEN Append(q, Item(ins[g][i], FiveInvert(Controlling(kind[g])), BOTH))
            ELSE q)

\* one iteration of "while d_front", up to the recursive call; or the
\* "return False" after the loop
DLoop ==
    /\ Running
    /\ Top.pc = "dloop"
    /\ IF Top.d = {}
       THEN /\ DoReturn(FALSE)
            /\ lastOp' = "dfail"
            /\ UNCHANGED picked
       ELSE \E g \in Top.d :
            /\ PickOk(Top.d, g)
            /\ picked' = Remember(Top.d, g)
            /\ LET d1 == Top.d \ {g}
                   q1 == NonControllingItems(g, 1, Top.q)
               IN  stack' = Append(SetTop([Top EXCEPT !.pc = "dcall", !.d = d1,
                                                       !.q = q1, !.gate = g,
                                                       !.calls = @ + 1]),
                                   Frame(d1, Top.j, q1, Top.vis))
            /\ lastOp' = "dcall"
            /\ UNCHANGED result
    /\ UNCHANGED <<netVars, value, phase, fault, raised, runs, pre, prev>>
    /\ UNCHANGED algVars

\* the head of "while j_front": SUCCESS when it is empty, else pop a gate
JLoop ==
    /\ Running
    /\ Top.pc = "jloop"
    /\ IF Top.j = {}
       THEN /\ DoReturn(TRUE)
            /\ lastOp' = "success"
            /\ UNCHANGED picked
       ELSE \E g \in Top.j :
            /\ PickOk(Top.j, g)
            /\ picked' = Remember(Top.j, g)
            /\ stack' = SetTop([Top EXCEPT !.pc = "jfor", !.j = @ \ {g},
                                           !.gate = g, !.i = 1])
            /\ lastOp' = "jpop"
            /\ UNCHANGED result
    /\ UNCHANGED <<netVars, value, phase, fault, raised, runs, pre, prev>>
    /\ UNCHANGED algVars

\* indexes from i on of the inputs of g that are UNKNOWN
UnknownFrom(g, i) == {k \in i..Len(ins[g]) : FiveEq(value[ins[g][k]], UNKNOWN)}

Min(S) == CHOOSE x \in S : \A y \in S : x <= y

\* "for line in gate.inputs" of the justification step up to its next
\* recursive call: for the next UNKNOWN input, or the call after the loop
JFor ==
    /\ Running
    /\ Top.pc = "jfor"
    /\ LET g == Top.gate
           U == UnknownFrom(g, Top.i)
       IN  IF U # {}
           THEN LET k == Min(U)
                    q1 == Append(Top.q, Item(ins[g][k], Controlling(kind[g]), BOTH))
                IN  /\ stack' = Append(SetTop([Top EXCEPT !.pc = "jcall", !.i = k, !.q = q1,
                                                               !.calls = @ + 1]),
                                       Frame(Top.d, Top.j, q1, Top.vis))
                    /\ lastOp' = "jcall"
           ELSE /\ stack' = Append(SetTop([Top EXCEPT !.pc = "jlast", !.calls = @ + 1]),
                                   Frame(Top.d, Top.j, Top.q, Top.vis))
                /\ lastOp' = "jlast"
    /\ UNCHANGED <<netVars, value, phase, fault, result, raised, picked, runs, pre, prev>>
    /\ UNCHANGED algVars

\* "return True" after a successful recursive call, "return False" at the
\* end of the justification step
ReturnStep ==
    /\ Running
    /\ Top.pc \in {"rtrue", "rfalse"}
    /\ DoReturn(Top.pc = "rtrue")
    /\ lastOp' = "return"
    /\ UNCHANGED <<netVars, value, phase, fault, raised, picked, runs, pre, prev>>
    /\ UNCHANGED algVars

(***************************************************************************)
(* d_alg.py: D_Algorithm.                                                  *)
(***************************************************************************)
SeedQueueSwapped(f, sa1) ==
    IF sa1
    THEN <<Item(SynLine, ON, BACKWARDS), Item(f, ON_IS_OFF, FORWARDS)>>
    ELSE <<Item(SynLine, OFF, BACKWARDS), Item(f, OFF_IS_ON, FORWARDS)>>

\* the seed queue for the two polarities
SeedQueue(f, sa1) ==
    IF sa1
    THEN <<Item(SynLine, OFF, BACKWARDS), Item(f, OFF_IS_ON, FORWARDS)>>
    ELSE <<Item(SynLine, ON, BACKWARDS), Item(f, ON_IS_OFF, FORWARDS)>>

Structure ==
    [parent |-> [l \in netLines |-> parent[l]], children |-> children,
     ins |-> ins, gout |-> gout, netLines |-> netLines]

\* D_Algorithm up to the first call of D_Algorithm_Recurse: reset, splice
\* the synthetic line in, seed the queue.  A caller repeating the call
\* repeats its arguments.
Start(f, sa1) ==
    /\ phase = "idle"
    /\ runs < MaxRuns
    /\ f \in netLines
    /\ runs > 0 => (f = prev.loc /\ sa1 = prev.sa1)
    /\ LET source_gate == parent[f]
       IN  /\ value' = [ResetValues(value) EXCEPT ![SynLine] = UNKNOWN]
           /\ parent' = [parent EXCEPT ![SynLine] = source_gate, ![f] = NoGate]
           /\ gout' = IF source_gate # NoGate
                      THEN [gout EXCEPT ![source_gate] = SynLine]
                      ELSE gout
           /\ fault' = [loc |-> f, sa1 |-> sa1, source |-> source_gate]
    /\ stack' = <<[Frame({}, {}, SeedQueue(f, sa1), {}) EXCEPT !.entry = value']>>
    /\ phase' = "running"
    /\ result' = "none"
    /\ raised' = "none"
    /\ runs' = runs + 1
    /\ pre' = Structure
    /\ lastOp' = "start"
    /\ UNCHANGED <<ctx, entered, kind, ins, netGates, netLines, children, picked, prev>>
    /\ UNCHANGED algVars

\* the finally block of D_Algorithm
RestoreParentOnly(go) == go

RestoreOutput(go) ==
    IF fault.source # NoGate THEN [go EXCEPT ![fault.source] = fault.loc] ELSE go

\* the test vector a caller reads off the primary inputs
InputValues(val) == [l \in {x \in netLines : pre.parent[x] = NoGate} |-> val[l]]

\* D_Algorithm after D_Algorithm_Recurse ended: the finally block, then the
\* return (or the re-raise); the synthetic line is dropped
Finish ==
    /\ phase = "running"
    /\ stack = <<>>
    /\ parent' = [parent EXCEPT ![fault.loc] = fault.source, ![SynLine] = NoGate]
    /\ gout' = RestoreOutput(gout)
    /\ value' = [value EXCEPT ![SynLine] = UNKNOWN]
    /\ phase' = "idle"
    /\ prev' = IF runs = 1
               THEN [loc |-> fault.loc, sa1 |-> fault.sa1, result |-> result,
                     vals |-> InputValues(value)]
               ELSE prev
    /\ lastOp' = "finish"
    /\ UNCHANGED <<ctx, entered, kind, ins, netGates, netLines, children,
                   stack, fault, result, raised, picked, runs, pre>>
    /\ UNCHANGED algVars

Next ==
    \/ Enter
    \/ \E t \in Topologies : \E n \in 1..Len(t) : \E k \in Kinds : NewGate(k, t[n])
    \/ \E t \in Topologies : \E k \in Kinds : NewGateOutside(k, t[1])
    \/ Exit
    \/ Reset
    \/ \E f \in Lines : \E sa1 \in BOOLEAN : Start(f, sa1)
    \/ ImplyPop
    \/ ImplyDone
    \/ DLoop
    \/ JLoop
    \/ JFor
    \/ ReturnStep
    \/ Finish

Spec == Init /\ [][Next]_vars

(***************************************************************************)
(* multi_logic.py exercised on its own: a caller applies an operator of    *)
(* the algebra to operands drawn from the whole FiveValue domain.  The     *)
(* TriValue operators act on the good components of the same operands.     *)
(***************************************************************************)
BinaryOps == {"and", "or", "xor"}

FiveOp(op, u, v) ==
    CASE op = "and" -> FiveAnd(u, v)
      [] op = "or" -> FiveOr(u, v)
      [] op = "xor" -> FiveXor(u, v)

TriOp(op, a, b) ==
    CASE op = "and" -> TriAnd(a, b)
      [] op = "or" -> TriOr(a, b)
      [] op = "xor" -> TriXor(a, b)

AlgInit ==
    /\ EngineInit
    /\ operands \in FiveValues \X FiveValues \X FiveValues
    /\ outcome = NoOutcome

\* (a op b) op c, a op (b op c), a op b and b op a on FiveValues
ApplyFive(op) ==
    /\ outcome' = [op |-> op, domain |-> "five",
                   left |-> FiveOp(op, FiveOp(op, operands[1], operands[2]), operands[3]),
                   right |-> FiveOp(op, operands[1], FiveOp(op, operands[2], operands[3])),
                   ab |-> FiveOp(op, operands[1], operands[2]),
                   ba |-> FiveOp(op, operands[2], operands[1])]
    /\ UNCHANGED <<netVars, value, phase, engVars, histVars, operands>>

\* the same on the TriValues operands[i][1]
ApplyTri(op) ==
    /\ outcome' = [op |-> op, domain |-> "tri",
                   left |-> TriOp(op, TriOp(op, operands[1][1], operands[2][1]), operands[3][1]),
                   right |-> TriOp(op, operands[1][1], TriOp(op, operands[2][1], operands[3][1])),
                   ab |-> TriOp(op, operands[1][1], operands[2][1]),
                   ba |-> TriOp(op, operands[2][1], operands[1][1])]
    /\ UNCHANGED <<netVars, value, phase, engVars, histVars, operands>>

\* operands[1] == operands[2]
ApplyEq ==
    /\ outcome' = [op |-> "eq", eq |-> FiveEq(operands[1], operands[2])]
    /\ UNCHANGED <<netVars, value, phase, engVars, histVars, operands>>

\* ~operands[1] and ~~operands[1]
ApplyInvert ==
    /\ outcome' = [op |-> "invert", once |-> FiveInvert(operands[1]),
                   twice |-> FiveInvert(FiveInvert(operands[1]))]
    /\ UNCHANGED <<netVars, value, phase, engVars, histVars, operands>>

\* TriValue(n) for an integer n
NewTri(n) ==
    /\ outcome' = [op |-> "tri_new", arg |-> n, new |-> TriNew(n)]
    /\ UNCHANGED <<netVars, value, phase, engVars, histVars, operands>>

\* FiveValue((a, b)) for TriValues a and b
NewFive(a, b) ==
    /\ outcome' = [op |-> "five_new", arg |-> <<a, b>>, built |-> FiveValue(<<a, b>>)]
    /\ UNCHANGED <<netVars, value, phase, engVars, histVars, operands>>

\* forward() of a gate of variant k whose n input lines hold the first n
\* operands
ApplyForward(k, n) ==
    /\ outcome' = [op |-> "forward", kind |-> k, vs |-> SubSeq(operands, 1, n),
                   out |-> ForwardOf(k, SubSeq(operands, 1, n))]
    /\ UNCHANGED <<netVars, value, phase, engVars, histVars, operands>>

AlgNext ==
    \/ \E op \in BinaryOps : ApplyFive(op)
    \/ \E op \in BinaryOps : ApplyTri(op)
    \/ ApplyEq
    \/ ApplyInvert
    \/ \E n \in (-MaxCode)..MaxCode : NewTri(n)
    \/ \E a \in TriCodes : \E b \in TriCodes : NewFive(a, b)
    \/ \E k \in Kinds \ {"NOT"} : \E n \in 1..Len(operands) : ApplyForward(k, n)

AlgSpec == AlgInit /\ [][AlgNext]_vars

(***************************************************************************)
(* Properties.                                                             *)
(***************************************************************************)
\* a D_Algorithm call has just returned (or ended with an exception)
Returned == phase = "idle" /\ lastOp = "finish"

\* Reference semantics of the circuit: two-valued evaluation of a gate
RECURSIVE Parity(_)
Parity(bs) == IF Len(bs) = 0 THEN FALSE ELSE (bs[1] # Parity(Tail(bs)))

BoolGate(k, bs) ==
    CASE k = "AND" -> \A i \in 1..Len(bs) : bs[i]
      [] k = "NAND" -> ~(\A i \in 1..Len(bs) : bs[i])
      [] k = "OR" -> \E i \in 1..Len(bs) : bs[i]
      [] k = "NOR" -> ~(\E i \in 1..Len(bs) : bs[i])
      [] k = "XOR" -> Parity(bs)
      [] k = "XNOR" -> ~Parity(bs)
      [] k = "NOT" -> ~bs[1]

\* the level of line l under the primary-input assignment c; with stuck the
\* fault location is forced to the stuck-at level
RECURSIVE SimLine(_, _, _)
SimLine(l, c, stuck) ==
    IF stuck /\ l = fault.loc THEN fault.sa1
    ELSE IF pre.parent[l] = NoGate THEN c[l]
    ELSE LET g == pre.parent[l]
         IN  BoolGate(kind[g], [i \in 1..Len(ins[g]) |-> SimLine(ins[g][i], c, stuck)])

PrimaryInputs == {l \in netLines : pre.parent[l] = NoGate}
PrimaryOutputs == {l \in netLines : Len(children[l]) = 0}

\* the assignment c makes the fault observable at a primary output
Detects(c) == \E o \in PrimaryOutputs : SimLine(o, c, FALSE) # SimLine(o, c, TRUE)

\* the assignments that agree with the known good values of the primary inputs
Completions ==
    {c \in [PrimaryInputs -> BOOLEAN] :
        \A l \in PrimaryInputs :
            /\ value[l][1] = T_ON => c[l]
            /\ value[l][1] = T_OFF => ~c[l]}

\* C1: whenever D_Algorithm returns True, every completion of the values
\* left on the primary inputs is a test vector for the fault.
C1_Soundness == (Returned /\ result = TRUE) => \A c \in Completions : Detects(c)

\* C2: whenever D_Algorithm returns False, no primary-input assignment
\* makes the fault observable at a primary output.
C2_Completeness ==
    (Returned /\ result = FALSE) => \A c \in [PrimaryInputs -> BOOLEAN] : ~Detects(c)

\* sizes of the network: its lines with the synthetic one, its gates, the
\* inputs of all gates together, and the largest number of inputs of a gate
NumLines == Cardinality(netLines) + 1
NumGates == Cardinality(netGates)
RECURSIVE SumArity(_)
SumArity(G) ==
    IF G = {} THEN 0
    ELSE LET g == CHOOSE x \in G : TRUE IN Len(ins[g]) + SumArity(G \ {g})
NumPins == SumArity(netGates)
MaxArity == IF netGates = {} THEN 0
            ELSE CHOOSE n \in {Len(ins[g]) : g \in netGates} :
                    \A g \in netGates : Len(ins[g]) <= n

\* every nested activation has assigned a line or holds smaller frontiers
DepthBound == (2 * NumGates + 1) * NumLines + 2 * NumGates + 1
\* an imply call pops what it inherited and one item per deduce_gate it ran
PopBound == 2 + 2 * NumPins + NumLines
\* one call per D-Frontier gate, or one per input of the J-Frontier gate
\* and one more
BreadthBound == IF NumGates > MaxArity + 1 THEN NumGates ELSE MaxArity + 1

\* C3: every D_Algorithm call that starts also returns: a running call can
\* always take its next step, each imply call pops a bounded number of
\* queue items, every activation of D_Algorithm_Recurse makes a bounded
\* number of recursive calls, and the activations nest to a bounded depth.
C3_Terminates ==
    phase = "running" =>
        /\ stack # <<>> => Top.pc \in {"imply", "dloop", "jloop", "jfor", "rtrue", "rfalse"}
        /\ Len(stack) <= DepthBound
        /\ \A n \in 1..Len(stack) :
              /\ stack[n].pops <= PopBound
              /\ stack[n].calls <= BreadthBound
              /\ n < Len(stack) => stack[n].pc \in {"dcall", "jcall", "jlast"}

C3_Witness ==
    /\ Returned
    /\ result = FALSE
    /\ Cardinality(netGates) = 3
    /\ \E S \in SUBSET netGates : \E g \in S : <<S, g>> \in picked

\* C4: when D_Algorithm has returned, parents, children, gate inputs and
\* gate outputs are those the call found, the fault line is driven by its
\* original gate again, and the synthetic line is no line of the network.
C4_StructureRestored ==
    Returned =>
        /\ Structure = pre
        /\ parent[fault.loc] = fault.source
        /\ fault.source # NoGate => gout[fault.source] = fault.loc
        /\ \A g \in netGates : parent[gout[g]] = g
        /\ SynLine \notin netLines

C4_Witness ==
    /\ Returned
    /\ fault.source # NoGate
    /\ result = FALSE
    /\ gout[fault.source] = fault.loc

\* the network of one XOR gate with both inputs tied to line 1
XorTied == netGates = {1} /\ kind[1] = "XOR" /\ ins[1] = <<1, 1>>

\* C5 (as amended): on XOR(x, x) the stuck-at-1 fault on the gate's output
\* line makes D_Algorithm return True: the good output is 0 whatever x is,
\* the faulty one is 1, and the fault is reported detectable.
C5_XorTiedStuckAt1Detected ==
    (Returned /\ XorTied /\ fault.loc = OutLine(1) /\ fault.sa1) => result = TRUE

C5_Witness ==
    Returned /\ XorTied /\ fault.loc = OutLine(1) /\ fault.sa1 /\ result = TRUE

\* C5 as stated: the same call returns False.
C5_XorTiedStuckAt1Undetectable ==
    (Returned /\ XorTied /\ fault.loc = OutLine(1) /\ fault.sa1) => result = FALSE

\* C6: a second D_Algorithm call with the arguments of the first returns
\* the same boolean and, on success, leaves the same values on the primary
\* inputs.
C6_Repeatable ==
    (Returned /\ runs >= 2) =>
        /\ fault.loc = prev.loc /\ fault.sa1 = prev.sa1
        /\ result = prev.result
        /\ result = TRUE => InputValues(value) = prev.vals

C6_Witness ==
    /\ Returned
    /\ runs = 2
    /\ result = TRUE
    /\ prev.result = TRUE
    /\ picked # {}
    /\ \E l \in PrimaryInputs : value[l] # UNKNOWN

C8_Reset ==
    [][lastOp' = "reset" =>
          /\ \A l \in netLines : value'[l] = UNKNOWN
          /\ netVars' = netVars
          /\ ResetValues(value') = value']_vars

C8_Witness ==
    /\ lastOp = "reset"
    /\ runs > 0
    /\ prev.result = TRUE
    /\ netLines # {}
    /\ \A l \in netLines : value[l] = UNKNOWN

\* C9 (as amended): FiveValue equality compares both components: u == v
\* holds exactly when the good components are equal and the faulty
\* components are equal, so ON == ON_IS_OFF is false.
C9_EqComparesBothComponents ==
    outcome.op = "eq" =>
        (outcome.eq <=> (operands[1][1] = operands[2][1] /\ operands[1][2] = operands[2][2]))

C9_Witness ==
    outcome.op = "eq" /\ operands[1] = ON /\ operands[2] = ON_IS_OFF /\ outcome.eq = FALSE

\* C9 as stated: u == v holds exactly when the good components are equal.
C9_EqComparesGoodOnly ==
    outcome.op = "eq" => (outcome.eq <=> (operands[1][1] = operands[2][1]))

\* C10: AND, OR and XOR are commutative and associative on FiveValue and on
\* TriValue under full-pair comparison.
C10_CommutativeAssociative ==
    outcome.op \in BinaryOps =>
        /\ outcome.left = outcome.right
        /\ outcome.ab = outcome.ba

\* both components UNKNOWN or neither
Collapsed(u) == TriEq(u[1], T_UNKNOWN) <=> TriEq(u[2], T_UNKNOWN)

\* C11: every FiveValue built by the constructor from two TriValues, and
\* every result of complement, AND, OR and XOR on FiveValues, has both
\* components UNKNOWN or neither and is one of the five canonical values;
\* a constructor argument with an UNKNOWN component yields a value equal
\* to FiveValue.UNKNOWN.
C11_UnknownCollapse ==
    /\ outcome.op = "five_new" =>
          /\ Collapsed(outcome.built)
          /\ outcome.built \in FiveValues
          /\ (T_UNKNOWN \in {outcome.arg[1], outcome.arg[2]}) => FiveEq(outcome.built, UNKNOWN)
    /\ (outcome.op \in BinaryOps /\ outcome.domain = "five") =>
          /\ {outcome.ab, outcome.ba, outcome.left, outcome.right} \subseteq FiveValues
          /\ \A r \in {outcome.ab, outcome.ba, outcome.left, outcome.right} : Collapsed(r)
    /\ outcome.op = "invert" =>
          /\ {outcome.once, outcome.twice} \subseteq FiveValues
          /\ Collapsed(outcome.once) /\ Collapsed(outcome.twice)

C11_Witness ==
    /\ outcome.op = "five_new"
    /\ outcome.arg = <<T_ON, T_UNKNOWN>>
    /\ outcome.built = UNKNOWN

\* C12: TriValue(n) raises ValueError for every integer n that is none of
\* the codes 0b00, 0b01, 0b11, and no such integer is stored as a code.
C12_InvalidCodeRejected ==
    (outcome.op = "tri_new" /\ outcome.arg \notin TriCodes) =>
        outcome.new.error = "ValueError"

\* the values a gate of variant k yields when an input is controlling
ControlledOutput(k) ==
    IF FiveEq(Inversion(k), ON) THEN FiveInvert(Controlling(k)) ELSE Controlling(k)

\* C13: for AND, NAND, OR and NOR of any arity an input holding the
\* controlling value fixes forward() to the controlling value (complemented
\* for NAND and NOR) whatever the other inputs hold; a 2-input AND yields ON
\* for (ON, ON), OFF for (OFF, any) and (UNKNOWN, OFF), UNKNOWN for
\* (UNKNOWN, ON); and forward() changes no line value.
C13_ControllingDetermines ==
    [][outcome'.op = "forward" =>
          /\ value' = value
          /\ (/\ outcome'.kind \in {"AND", "NAND", "OR", "NOR"}
              /\ \E i \in 1..Len(outcome'.vs) :
                    FiveEq(outcome'.vs[i], Controlling(outcome'.kind)))
                => outcome'.out = ControlledOutput(outcome'.kind)
          /\ (outcome'.kind = "AND" /\ Len(outcome'.vs) = 2) =>
                /\ outcome'.vs = <<ON, ON>> => outcome'.out = ON
                /\ outcome'.vs[1] = OFF => outcome'.out = OFF
                /\ outcome'.vs = <<UNKNOWN, OFF>> => outcome'.out = OFF
                /\ outcome'.vs = <<UNKNOWN, ON>> => outcome'.out = UNKNOWN]_vars

C13_Witness ==
    /\ outcome.op = "forward"
    /\ outcome.kind = "NOR"
    /\ outcome.vs = <<UNKNOWN, ON_IS_OFF, ON>>
    /\ outcome.out = OFF

\* C14: a gate constructed while no Network context is active, before the
\* with-block is entered or after it was left, ends with RuntimeError, and
\* the gate set and the line set of the network are unchanged.
C14_GateOutsideContextFails ==
    [][(ctx = 0 /\ lastOp' \in {"gate", "gate_error"}) =>
          /\ lastOp' = "gate_error"
          /\ phase' = "failed"
          /\ netGates' = netGates
          /\ netLines' = netLines
          /\ OrphanGate \notin netGates']_vars

C14_Witness ==
    /\ phase = "failed"
    /\ lastOp = "gate_error"
    /\ entered
    /\ ctx = 0
    /\ runs > 0
    /\ netGates # {}
    /\ OrphanGate \notin netGates
    /\ kind[OrphanGate] # "none"

\* C15: when an imply call finds a contradiction and returns False, every
\* line holds the value it held when that imply call was entered.
C15_ContradictionRestoresEntryValues ==
    [][(Running /\ Top.pc = "imply" /\ lastOp' = "contradiction") =>
          value' = Top.entry]_vars

\* an imply call has ended in a contradiction after assigning at least the
\* line of the item it popped first (the last item of the queue its caller
\* handed over), and that line is UNKNOWN again
C15_Witness ==
    /\ Running
    /\ lastOp = "contradiction"
    /\ Top.pc \in {"dloop", "jfor"}
    /\ Len(Top.q) > 0
    /\ value[Top.q[Len(Top.q)].line] = UNKNOWN
    /\ \E l \in netLines : value[l] # UNKNOWN

\* the lines an activation's undo log names
UndoLines(f) == {f.undo[n][1] : n \in 1..Len(f.undo)}

\* C16: inside the search a line loses a known value only in the step of
\* an imply call that found a contradiction, and only if that call had
\* assigned it; the assignments of every imply call that returned True
\* stay on their lines as long as its activation lives, whatever deeper
\* calls return.
C16_SuccessfulImplyNeverUndone ==
    [][(phase = "running" /\ phase' = "running") =>
          /\ \A l \in Lines :
                (value[l] # UNKNOWN /\ value'[l] # value[l]) =>
                    /\ lastOp' = "contradiction"
                    /\ Running
                    /\ Top.pc = "imply"
                    /\ l \in UndoLines(Top)
          /\ \A n \in 1..Len(stack') :
                stack'[n].pc # "imply" =>
                    \A a \in stack'[n].kept : value'[a[1]] = a[2]]_vars

\* a deeper call has returned False to an activation whose imply call had
\* assigned lines, and a line assigned by no living activation still holds
\* a known value
C16_Witness ==
    /\ Running
    /\ lastOp \in {"dfail", "return", "contradiction"}
    /\ Top.pc \in {"dloop", "jfor", "rfalse"}
    /\ Top.kept # {}
    /\ \A a \in Top.kept : value[a[1]] = a[2]
    /\ \E l \in netLines :
          /\ value[l] # UNKNOWN
          /\ \A n \in 1..Len(stack) : \A a \in stack[n].kept : a[1] # l

\* C17 (as amended): in the propagation step an activation tries the gates
\* of its D-Frontier one after the other: when the recursive call made for
\* the chosen gate returns False it is back at the head of the loop, where
\* it selects another gate and recurses again while the D-Frontier is not
\* empty, and returns False only when it is empty.
C17_TriesEveryFrontierGate ==
    [][/\ (/\ Len(stack) >= 2
           /\ Len(stack') = Len(stack) - 1
           /\ stack[Len(stack) - 1].pc = "dcall") =>
              stack'[Len(stack')].pc =
                  IF lastOp' = "success" \/ (lastOp' = "return" /\ Top.pc = "rtrue")
                  THEN "rtrue" ELSE "dloop"
       /\ (Running /\ Top.pc = "dloop" /\ stack' # stack) =>
              IF Top.d = {}
              THEN lastOp' = "dfail"
              ELSE /\ lastOp' = "dcall"
                   /\ Len(stack') = Len(stack) + 1
                   /\ stack'[Len(stack)].calls = Top.calls + 1]_vars

C17_Witness ==
    \E n \in 1..Len(stack) : stack[n].pc = "dcall" /\ stack[n].calls >= 2

\* C17 as stated: no activation makes a second recursive call in its
\* propagation step.
C17_TriesOneGate ==
    \A n \in 1..Len(stack) : stack[n].pc \in {"dcall", "dloop"} => stack[n].calls <= 1

\* C18: when an imply call has returned True and the search turns to its
\* D-Frontier, every gate of the D-Frontier has an UNKNOWN output line and
\* an input line holding ON_IS_OFF or OFF_IS_ON.
C18_DFrontierMembership ==
    (Running /\ lastOp = "implied" /\ Top.pc = "dloop") =>
        \A g \in Top.d :
            /\ FiveEq(value[gout[g]], UNKNOWN)
            /\ HasSensitizedInput(g, value)

Reverse(u) == [n \in 1..Len(u) |-> u[Len(u) + 1 - n]]

\* C19: during a D_Algorithm call no line changes from a known value to a
\* different known value; every undo log names each line at most once,
\* always with the previous value UNKNOWN, and reverting it in either
\* order gives the same line values.
C19_NoKnownToKnown ==
    [][phase' = "running" =>
          /\ \A l \in Lines :
                value'[l] = value[l] \/ value[l] = UNKNOWN \/ value'[l] = UNKNOWN
          /\ \A n \in 1..Len(stack') :
                LET u == stack'[n].undo
                IN  /\ \A x \in 1..Len(u) : u[x][2] = UNKNOWN
                    /\ \A x, y \in 1..Len(u) : u[x][1] = u[y][1] => x = y
                    /\ Revert(value', u) = Revert(value', Reverse(u))]_vars

C19_Witness ==
    /\ Running
    /\ Len(stack) >= 2
    /\ Top.pc = "imply"
    /\ Len(Top.undo) >= 2
    /\ Len(Top.q) > 0
    /\ ~Assigns(value[Top.q[Len(Top.q)].line])
    /\ ~FiveEq(value[Top.q[Len(Top.q)].line], Top.q[Len(Top.q)].value)

====
